---- MODULE Spec2Model ----
(***************************************************************************)
(* Model of fix_video.py: ComprehensiveFixer and main.                     *)
(*                                                                         *)
(* Times are integers counting quarter-second ticks, so that the 0.5 s     *)
(* tolerance of _calc_segments (2 ticks) and the 3.0 s minimum freeze      *)
(* length of _check_freezes (12 ticks) are exact and gaps shorter than,    *)
(* equal to and longer than the tolerance all occur.                       *)
(*                                                                         *)
(* External tools (ffprobe, ffmpeg) are the environment: an invocation is  *)
(* started, is in flight, and finishes with a nondeterministic outcome.    *)
(***************************************************************************)
EXTENDS Integers, Sequences, FiniteSets, TLC

\* ------------------------------------------------------------------ bounds
MaxT == 6            \* largest time (ticks) of the segment-calculator inputs
MaxFreezes == 2      \* longest freeze list of the segment-calculator inputs
MaxRunT == 15        \* largest time (ticks) the freeze detector reports in a run
MaxLines == 2        \* most freeze_start/freeze_end lines of one detector pass
MaxParseLines == 4   \* longest detector output given to the line parser alone
MaxParseK == 4       \* largest time given to the line parser, in half minimum freezes

\* ------------------------------------------------------- program constants
Tol == 2                 \* 0.5 s in ticks: "pos + 0.5", "duration - 0.5"
MinFreeze == 12          \* 3.0 s in ticks: "if dur >= 3.0"
DefaultDuration == 3600  \* 900 s in ticks: info after a failed probe
DefaultFps == 30         \* fps of info after a failed probe

VARIABLES
  pc,            \* position of the run
  info,          \* self.info
  issues,        \* self.issues
  strategy,      \* self.strategy ("unset" until _decide assigns it)
  segments,      \* list returned by _calc_segments
  seg_i,         \* index of the per-segment loops
  seg_files,     \* seg_files: indices of the segment files that exist
  temp_files,    \* files present in self.temp_dir
  current,       \* _fix_compat's input of the re-encode
  output,        \* the file at self.output_path
  success,       \* main's "success": "unset" until repair returns "True" or "False"
  resp,          \* main's normalised answer
  answer,        \* the line the user typed
  exc,           \* exception that left main's try block
  temp_dir,      \* the scratch directory
  cleanup_state, \* what cleanup() did
  waiting,       \* the run is blocked on the external process it started
  running,       \* external processes started and not yet terminated
  trace,         \* external invocations in start order, with their outcome
  phases,        \* main's phases in start order
  detect_failed, \* detection passes that raised
  report,        \* streams returned by verify's parameter probe
  raised,        \* exceptions raised so far, as <<where, kind>>
  stderr         \* result.stderr of the freeze detection, split into lines

analysisVars == <<info, issues, strategy, detect_failed, stderr>>
repairVars == <<segments, seg_i, seg_files, temp_files, current, output, success>>
procVars == <<waiting, running, trace>>
mainVars == <<resp, answer, exc, phases, temp_dir, cleanup_state, report, raised>>
vars == <<pc, info, issues, strategy, detect_failed, stderr,
          segments, seg_i, seg_files, temp_files, current, output, success,
          waiting, running, trace,
          resp, answer, exc, phases, temp_dir, cleanup_state, report, raised>>

\* a cursor that always jumps to the end of the interval just walked
Max_second(a, b) == b

\* "max(pos, e)"
Max(a, b) == IF a >= b THEN a ELSE b

\* ------------------------------------------------------------ sorted(...)
\* Python compares the (start, end, dur) tuples lexicographically.
TupleLess(a, b) ==
  \/ a[1] < b[1]
  \/ a[1] = b[1] /\ a[2] < b[2]
  \/ a[1] = b[1] /\ a[2] = b[2] /\ a[3] < b[3]

RECURSIVE InsertSorted(_, _)
InsertSorted(x, lst) ==
  IF lst = <<>> THEN <<x>>
  ELSE IF TupleLess(x, lst[1]) THEN <<x>> \o lst
  ELSE <<lst[1]>> \o InsertSorted(x, Tail(lst))

RECURSIVE SortFrom(_, _)
SortFrom(lst, acc) ==
  IF lst = <<>> THEN acc ELSE SortFrom(Tail(lst), InsertSorted(lst[1], acc))

\* a sort that leaves the list in detection order
sorted_unsorted(lst) == lst

sorted(lst) == SortFrom(lst, <<>>)

\* ------------------------------------------------------- _calc_segments
\* the loop "for s, e, _ in sorted(freezes)": returns <<pos, segments>>
RECURSIVE WalkFreezes(_, _, _)
WalkFreezes(ivs, pos, segs) ==
  IF ivs = <<>> THEN <<pos, segs>>
  ELSE LET s == ivs[1][1]
           e == ivs[1][2]
           segs2 == IF s > pos + Tol
                    THEN Append(segs, [start |-> pos, end |-> s])
                    ELSE segs
       IN WalkFreezes(Tail(ivs), Max(pos, e), segs2)

\* the walk without the trailing segment
FinalSegment_dropped(pos, segs, dur) == segs

\* "if pos < duration - 0.5: segments.append(...)"
FinalSegment(pos, segs, dur) ==
  IF pos < dur - Tol THEN Append(segs, [start |-> pos, end |-> dur]) ELSE segs

\* the early return with the walk's result in its place
WholeVideo_walked(dur) == FinalSegment(0, <<>>, dur)

\* "if not freezes: return [{'start': 0, 'end': duration}]"
WholeVideo(dur) == <<[start |-> 0, end |-> dur]>>

_calc_segments(frz, dur) ==
  IF frz = <<>> THEN WholeVideo(dur)
  ELSE LET w == WalkFreezes(sorted(frz), 0, <<>>)
       IN FinalSegment(w[1], w[2], dur)

\* ------------------------------------------------------------- __init__
NoIssues ==
  [freezes |-> <<>>, moov_late |-> FALSE, timestamp_bad |-> FALSE,
   need_reencode |-> FALSE]

\* info after a failed probe: {'duration': 900, 'fps': 30}
DefaultInfo == [duration |-> DefaultDuration, fps |-> DefaultFps]

NoFile == [exists |-> FALSE, written |-> FALSE, pix_fmt |-> "none"]

\* a file left at the output path by an earlier run
StaleFile == [exists |-> TRUE, written |-> FALSE, pix_fmt |-> "yuv422p"]

\* everything but pc, info, issues, segments and output, as left by __init__
Constructed ==
  /\ strategy = "unset"
  /\ seg_i = 0
  /\ seg_files = <<>>
  /\ temp_files = {}
  /\ current = "input"
  /\ success = "unset"
  /\ resp = <<>>
  /\ answer = <<>>
  /\ exc = "none"
  /\ temp_dir = "exists"
  /\ cleanup_state = "not_run"
  /\ waiting = FALSE
  /\ running = 0
  /\ trace = <<>>
  /\ phases = <<>>
  /\ detect_failed = {}
  /\ report = <<>>
  /\ raised = {}
  /\ stderr = <<>>

\* ------------------------------------ inputs of the segment calculator
Interval(s, e) == <<s, e, e - s>>

IntervalsWithin(d) ==
  { Interval(p[1], p[2]) : p \in { q \in (0..d) \X (0..d) : q[1] < q[2] } }

FreezeLists(d) ==
  UNION { [1..n -> IntervalsWithin(d)] : n \in 0..MaxFreezes }

CalcDurations == (0..MaxT) \cup {DefaultDuration}

InitCalc ==
  /\ pc = "calc_in"
  /\ \E d \in CalcDurations : info = [duration |-> d, fps |-> DefaultFps]
  /\ \E frz \in FreezeLists(IF info.duration > MaxT THEN MaxT ELSE info.duration) :
       issues = [NoIssues EXCEPT !.freezes = frz]
  /\ segments = <<>>
  /\ output = NoFile
  /\ Constructed

CalcSegments ==
  /\ pc = "calc_in"
  /\ segments' = _calc_segments(issues.freezes, info.duration)
  /\ pc' = "calc_out"
  /\ UNCHANGED <<analysisVars, seg_i, seg_files, temp_files, current, output,
                 success, procVars, mainVars>>

NextCalc == CalcSegments

SpecCalc == InitCalc /\ [][NextCalc]_vars

\* =================================================================== run
\* ------------------------------------------------- external invocations
\* stages whose command goes through _run (Popen, read stdout, wait)
RunStages ==
  {"ff_reencode", "ff_audio", "ff_seg", "ff_concat", "ff_mux",
   "rf_copy", "rf_seg", "rf_concat", "fc_container", "fc_reencode", "light"}

\* stages that call subprocess.run, which returns after the child has ended
SubprocessStages ==
  {"get_info", "check_freezes", "check_ts", "ff_audio_probe",
   "ff_merged_probe", "v_durations", "v_params", "v_integrity"}

\* stages whose exceptions, KeyboardInterrupt included, a bare "except:" swallows
BareExceptStages ==
  {"check_moov", "check_ts", "ff_audio_probe", "ff_merged_probe",
   "v_params", "v_integrity"}

\* positions inside main's try block
TryStages ==
  RunStages \cup SubprocessStages \cup
  {"analyze", "check_moov", "check_compat", "decide", "prompt", "repair",
   "full_fix", "remove_freeze", "fix_compat", "after_repair", "verify"}

\* a child that is never waited for
AfterWait_nowait(n) == n

\* "p.wait()": the child of _run has terminated
AfterWait(n) == n - 1

\* subprocess.run returns, or kills the child and raises: the child has ended
AfterRun(n) == n - 1

\* a try block whose finally clause is skipped on KeyboardInterrupt
Unwind_interrupt_skips(e) == IF e = "KeyboardInterrupt" THEN "done" ELSE "finally"

\* leaving main's try block by return, exception or fall-through: finally
Unwind(e) == "finally"

Started(stage) == Append(trace, [stage |-> stage, out |-> "running"])

Finished(out) == [trace EXCEPT ![Len(trace)].out = out]

\* subprocess.Popen(cmd) in _run
Popen ==
  /\ pc \in RunStages
  /\ ~waiting
  /\ waiting' = TRUE
  /\ running' = running + 1
  /\ trace' = Started(pc)
  /\ UNCHANGED <<pc, analysisVars, repairVars, mainVars>>

\* subprocess.run(cmd, ...) until the child runs
subprocess_run ==
  /\ pc \in SubprocessStages
  /\ ~waiting
  /\ waiting' = TRUE
  /\ running' = running + 1
  /\ trace' = Started(pc)
  /\ UNCHANGED <<pc, analysisVars, repairVars, mainVars>>

\* ---------------------------------------------------------------- analyze
Init ==
  /\ pc = "analyze"
  /\ info = <<>>
  /\ issues = NoIssues
  /\ segments = <<>>
  /\ output \in {NoFile, StaleFile}
  /\ Constructed

analyze ==
  /\ pc = "analyze"
  /\ phases' = Append(phases, "analyze")
  /\ pc' = "get_info"
  /\ UNCHANGED <<analysisVars, repairVars, procVars,
                 resp, answer, exc, temp_dir, cleanup_state, report, raised>>

RunDurations == {MaxRunT, DefaultDuration}

\* info built from a parsed probe result (the keys the run reads later)
ProbedInfos ==
  [duration : RunDurations, fps : {DefaultFps},
   profile : {"High"}, pix_fmt : {"yuv420p", "yuv422p"}]
  \cup [duration : RunDurations, fps : {DefaultFps},
        profile : {"High 10"}, pix_fmt : {"yuv420p"}]

_get_info ==
  /\ pc = "get_info"
  /\ waiting
  /\ \/ /\ info' \in ProbedInfos
        /\ UNCHANGED detect_failed
     \/ /\ info' = DefaultInfo
        /\ detect_failed' = detect_failed \cup {"probe"}
  /\ waiting' = FALSE
  /\ running' = AfterRun(running)
  /\ trace' = Finished("ended")
  /\ pc' = "check_freezes"
  /\ UNCHANGED <<issues, strategy, stderr, repairVars, mainVars>>

\* lines of the detector's stderr; t is <<>> when float() raises
DetectorLines ==
  [kind : {"freeze_start", "freeze_end"}, t : { <<x>> : x \in 0..MaxRunT }]
  \cup [kind : {"freeze_start", "freeze_end", "other"}, t : {<<>>}]

DetectorOutputs == UNION { [1..n -> DetectorLines] : n \in 0..MaxLines }

\* a test that keeps a freeze of any length
LongEnough_any(dur) == TRUE

\* "if dur >= 3.0"
LongEnough(dur) == dur >= MinFreeze

\* the loop over result.stderr; freeze is <<>> for None, <<start>> otherwise
RECURSIVE ParseFreezeLines(_, _, _)
ParseFreezeLines(lines, freeze, acc) ==
  IF lines = <<>> THEN acc
  ELSE LET l == lines[1]
           rest == Tail(lines)
       IN IF l.kind = "freeze_start"
          THEN ParseFreezeLines(rest, IF l.t = <<>> THEN freeze ELSE l.t, acc)
          ELSE IF l.kind = "freeze_end" /\ freeze # <<>>
          THEN IF l.t = <<>>
               THEN ParseFreezeLines(rest, freeze, acc)
               ELSE LET dur == l.t[1] - freeze[1]
                    IN ParseFreezeLines(rest, <<>>,
                         IF LongEnough(dur)
                         THEN Append(acc, <<freeze[1], l.t[1], dur>>)
                         ELSE acc)
          ELSE ParseFreezeLines(rest, freeze, acc)

_check_freezes ==
  /\ pc = "check_freezes"
  /\ waiting
  /\ \/ /\ \E lines \in DetectorOutputs :
             issues' = [issues EXCEPT
                          !.freezes = ParseFreezeLines(lines, <<>>, issues.freezes)]
        /\ UNCHANGED detect_failed
     \/ /\ detect_failed' = detect_failed \cup {"freeze"}
        /\ UNCHANGED issues
  /\ waiting' = FALSE
  /\ running' = AfterRun(running)
  /\ trace' = Finished("ended")
  /\ pc' = "check_moov"
  /\ UNCHANGED <<info, strategy, stderr, repairVars, mainVars>>

\* ------------------------------------------- inputs of the line parser
\* times half a minimum freeze apart, so that freezes shorter than, equal to
\* and longer than the minimum occur
ParseTimes == { k * (MinFreeze \div 2) : k \in 0..MaxParseK }

ParseLines ==
  [kind : {"freeze_start", "freeze_end"}, t : { <<x>> : x \in ParseTimes }]
  \cup [kind : {"freeze_start", "freeze_end", "other"}, t : {<<>>}]

ParseOutputs == UNION { [1..n -> ParseLines] : n \in 0..MaxParseLines }

InitParse ==
  /\ pc = "parse_in"
  /\ info = <<>>
  /\ issues = NoIssues
  /\ segments = <<>>
  /\ output = NoFile
  /\ strategy = "unset"
  /\ seg_i = 0
  /\ seg_files = <<>>
  /\ temp_files = {}
  /\ current = "input"
  /\ success = "unset"
  /\ resp = <<>>
  /\ answer = <<>>
  /\ exc = "none"
  /\ temp_dir = "exists"
  /\ cleanup_state = "not_run"
  /\ waiting = FALSE
  /\ running = 0
  /\ trace = <<>>
  /\ phases = <<>>
  /\ detect_failed = {}
  /\ report = <<>>
  /\ raised = {}
  /\ stderr \in ParseOutputs

\* the loop of _check_freezes over the lines of one detector output
ParseDetectorOutput ==
  /\ pc = "parse_in"
  /\ issues' = [issues EXCEPT
                  !.freezes = ParseFreezeLines(stderr, <<>>, issues.freezes)]
  /\ pc' = "parse_out"
  /\ UNCHANGED <<info, strategy, detect_failed, stderr, repairVars, procVars,
                 mainVars>>

NextParse == ParseDetectorOutput

SpecParse == InitParse /\ [][NextParse]_vars

\* first half of _check_container: the moov/mdat search in the file head
_check_container_moov ==
  /\ pc = "check_moov"
  /\ \E late \in BOOLEAN : issues' = [issues EXCEPT !.moov_late = late]
  /\ pc' = "check_ts"
  /\ UNCHANGED <<info, strategy, detect_failed, stderr, repairVars, procVars, mainVars>>

\* second half of _check_container: the error scan for timestamp messages
_check_container_ts ==
  /\ pc = "check_ts"
  /\ waiting
  /\ \/ /\ \E bad \in BOOLEAN : issues' = [issues EXCEPT !.timestamp_bad = bad]
        /\ UNCHANGED detect_failed
     \/ /\ detect_failed' = detect_failed \cup {"timestamp"}
        /\ UNCHANGED issues
  /\ waiting' = FALSE
  /\ running' = AfterRun(running)
  /\ trace' = Finished("ended")
  /\ pc' = "check_compat"
  /\ UNCHANGED <<info, strategy, stderr, repairVars, mainVars>>

AcceptedProfiles == {"High", "Main", "Baseline"}

\* self.info['pix_fmt'] raises KeyError when the key is missing
_check_compatibility ==
  /\ pc = "check_compat"
  /\ IF "pix_fmt" \notin DOMAIN info
     THEN /\ exc' = "Exception"
          /\ raised' = raised \cup {<<"analyze", "Exception">>}
          /\ pc' = Unwind("Exception")
          /\ UNCHANGED issues
     ELSE /\ issues' = [issues EXCEPT !.need_reencode =
                          \/ issues.need_reencode
                          \/ info.pix_fmt # "yuv420p"
                          \/ info.profile \notin AcceptedProfiles]
          /\ pc' = "decide"
          /\ UNCHANGED <<exc, raised>>
  /\ UNCHANGED <<info, strategy, detect_failed, stderr, repairVars, procVars,
                 resp, answer, phases, temp_dir, cleanup_state, report>>

\* a selector that tests the container before the freezes
StrategyFor_container_first(iss) ==
  LET has_freezes == Len(iss.freezes) > 0
      has_container_issue == iss.moov_late \/ iss.timestamp_bad
      need_reencode == iss.need_reencode
  IN IF has_container_issue \/ need_reencode THEN "fix_compatibility"
     ELSE IF has_freezes THEN "remove_freeze"
     ELSE "light"

\* the if/elif chain of _decide
StrategyFor(iss) ==
  LET has_freezes == Len(iss.freezes) > 0
      has_container_issue == iss.moov_late \/ iss.timestamp_bad
      need_reencode == iss.need_reencode
  IN IF has_freezes /\ (has_container_issue \/ need_reencode) THEN "full_fix"
     ELSE IF has_freezes THEN "remove_freeze"
     ELSE IF has_container_issue \/ need_reencode THEN "fix_compatibility"
     ELSE "light"

\* _decide, followed by _show_plan (which only prints)
_decide ==
  /\ pc = "decide"
  /\ strategy' = StrategyFor(issues)
  /\ pc' = "prompt"
  /\ UNCHANGED <<info, issues, detect_failed, stderr, repairVars, procVars, mainVars>>

\* ------------------------------------------------------------------- main
Whitespace == {" "}

RECURSIVE lstrip(_)
lstrip(s) == IF s # <<>> /\ s[1] \in Whitespace THEN lstrip(Tail(s)) ELSE s

RECURSIVE rstrip(_)
rstrip(s) ==
  IF s # <<>> /\ s[Len(s)] \in Whitespace
  THEN rstrip(SubSeq(s, 1, Len(s) - 1))
  ELSE s

\* str.strip()
strip(s) == rstrip(lstrip(s))

LowerChar(c) ==
  CASE c = "Y" -> "y"
    [] c = "E" -> "e"
    [] c = "S" -> "s"
    [] c = "N" -> "n"
    [] c = "O" -> "o"
    [] OTHER -> c

\* str.lower()
lower(s) == [i \in 1..Len(s) |-> LowerChar(s[i])]

\* lines the user may type at the prompt, as character sequences
Answers ==
  { <<>>, <<" ">>, <<"Y">>, <<" ", "Y", "e", "s", " ">>,
    <<"n">>, <<"N", "o">>, <<"y", "y">>, <<"y", " ", "e", "s">> }

\* a test that only recognises a refusal
Declined_only_no(r) == r \in { <<"n">>, <<"n", "o">> }

\* "if resp and resp not in ['y', 'yes', '']"
Declined(r) == r # <<>> /\ r \notin { <<"y">>, <<"y", "e", "s">>, <<>> }

\* resp = input(...).strip().lower() and the test that follows it
prompt ==
  /\ pc = "prompt"
  /\ phases' = Append(phases, "prompt")
  /\ \/ \E a \in Answers :
          /\ answer' = a
          /\ resp' = lower(strip(a))
          /\ pc' = IF Declined(resp') THEN Unwind("none") ELSE "repair"
          /\ UNCHANGED <<exc, raised>>
     \/ /\ exc' = "Exception"
        /\ raised' = raised \cup {<<"main", "Exception">>}
        /\ pc' = Unwind("Exception")
        /\ UNCHANGED <<answer, resp>>
  /\ UNCHANGED <<analysisVars, repairVars, procVars, temp_dir, cleanup_state, report>>

\* a dispatch whose default branch is the compatibility fix
Dispatch_default_compat(st) ==
  IF st = "full_fix" THEN "full_fix"
  ELSE IF st = "remove_freeze" THEN "remove_freeze"
  ELSE "fix_compat"

\* the if/elif chain of repair
Dispatch(st) ==
  IF st = "full_fix" THEN "full_fix"
  ELSE IF st = "remove_freeze" THEN "remove_freeze"
  ELSE IF st = "fix_compatibility" THEN "fix_compat"
  ELSE "light"

repair ==
  /\ pc = "repair"
  /\ phases' = Append(phases, "repair")
  /\ pc' = Dispatch(strategy)
  /\ UNCHANGED <<analysisVars, repairVars, procVars,
                 resp, answer, exc, temp_dir, cleanup_state, report, raised>>

\* a repair whose try block has no handler
CaughtByRepair_nothing(e) == FALSE

\* "except Exception as e" of repair
CaughtByRepair(e) == e = "Exception"

\* an Exception raised inside a strategy while a command is being started:
\* repair prints it and returns False
repair_except ==
  /\ pc \in RunStages
  /\ ~waiting
  /\ raised' = raised \cup {<<"repair", "Exception">>}
  /\ IF CaughtByRepair("Exception")
     THEN /\ success' = "False"
          /\ pc' = "after_repair"
          /\ UNCHANGED exc
     ELSE /\ exc' = "Exception"
          /\ pc' = Unwind("Exception")
          /\ UNCHANGED success
  /\ UNCHANGED <<analysisVars, segments, seg_i, seg_files, temp_files, current,
                 output, procVars, resp, answer, phases, temp_dir,
                 cleanup_state, report>>

\* "if success: fixer.verify()"
after_repair ==
  /\ pc = "after_repair"
  /\ pc' = IF success = "True" THEN "verify" ELSE Unwind("none")
  /\ UNCHANGED <<analysisVars, repairVars, procVars, mainVars>>

\* ---------------------------------------------------------------- the tools
\* the file an encode or copy leaves at its target
Written(fmt) == [exists |-> TRUE, written |-> TRUE, pix_fmt |-> fmt]

\* the value a strategy returns from "return ....exists()"
Returned(exists) == IF exists THEN "True" ELSE "False"

\* the trace outcome of a stage whose expected file is checked with exists()
FileOutcome(exists) == IF exists THEN "exists" ELSE "missing"

\* the part of every _run call after Popen: the child ends and is waited for
Waited ==
  /\ waiting
  /\ waiting' = FALSE
  /\ running' = AfterWait(running)

\* --------------------------------------------------------------- _full_fix
\* "len(segments) == 1 and segments[0]['start'] == 0"
SingleSegmentFromZero(segs) == Len(segs) = 1 /\ segs[1].start = 0

_full_fix ==
  /\ pc = "full_fix"
  /\ segments' = _calc_segments(issues.freezes, info.duration)
  /\ IF segments' = <<>>
     THEN /\ success' = "False"
          /\ pc' = "after_repair"
     ELSE /\ pc' = IF SingleSegmentFromZero(segments') THEN "ff_reencode" ELSE "ff_audio"
          /\ UNCHANGED success
  /\ UNCHANGED <<analysisVars, seg_i, seg_files, temp_files, current, output,
                 procVars, mainVars>>

\* _reencode_for_compatibility: "-pix_fmt yuv420p", to self.output_path
_reencode_for_compatibility ==
  /\ pc \in {"ff_reencode", "fc_reencode"}
  /\ Waited
  /\ \E produced \in BOOLEAN :
       output' = IF produced THEN Written("yuv420p") ELSE output
  /\ trace' = Finished(FileOutcome(output'.exists))
  /\ success' = Returned(output'.exists)
  /\ pc' = "after_repair"
  /\ UNCHANGED <<analysisVars, segments, seg_i, seg_files, temp_files, current,
                 mainVars>>

\* a stage that goes on without its audio file
AfterAudio_unchecked(exists) == "ff_audio_probe"

\* "if not audio_file.exists(): return False"
AfterAudio(exists) == IF exists THEN "ff_audio_probe" ELSE "after_repair"

\* step 1/4: extract the audio
_full_fix_audio ==
  /\ pc = "ff_audio"
  /\ Waited
  /\ \E produced \in BOOLEAN :
       /\ temp_files' = IF produced THEN temp_files \cup {"audio"} ELSE temp_files
       /\ trace' = Finished(FileOutcome(produced))
       /\ pc' = AfterAudio(produced)
       /\ success' = IF pc' = "after_repair" THEN "False" ELSE success
  /\ UNCHANGED <<analysisVars, segments, seg_i, seg_files, current, output, mainVars>>

\* the duration probe of the extracted audio; "seg_files = []" follows it
_full_fix_audio_probe ==
  /\ pc = "ff_audio_probe"
  /\ waiting
  /\ waiting' = FALSE
  /\ running' = AfterRun(running)
  /\ trace' = Finished("ended")
  /\ seg_i' = 1
  /\ seg_files' = <<>>
  /\ pc' = "ff_seg"
  /\ UNCHANGED <<analysisVars, segments, temp_files, current, output, success,
                 mainVars>>

\* step 2/4: one iteration of the loop over segments, and after the last one
\* "if not seg_files: return False" and the writing of list.txt
_full_fix_segment ==
  /\ pc = "ff_seg"
  /\ Waited
  /\ \E produced \in BOOLEAN :
       /\ seg_files' = IF produced THEN Append(seg_files, seg_i) ELSE seg_files
       /\ trace' = Finished(FileOutcome(produced))
  /\ IF seg_i < Len(segments)
     THEN /\ seg_i' = seg_i + 1
          /\ pc' = "ff_seg"
          /\ UNCHANGED <<temp_files, success>>
     ELSE /\ UNCHANGED seg_i
          /\ IF seg_files' = <<>>
             THEN /\ success' = "False"
                  /\ pc' = "after_repair"
                  /\ UNCHANGED temp_files
             ELSE /\ temp_files' = temp_files \cup {"list"}
                  /\ pc' = "ff_concat"
                  /\ UNCHANGED success
  /\ UNCHANGED <<analysisVars, segments, current, output, mainVars>>

\* step 3/4: concatenate the segment files into video_merged.mp4
_full_fix_concat ==
  /\ pc = "ff_concat"
  /\ Waited
  /\ \E produced \in BOOLEAN :
       /\ temp_files' = IF produced THEN temp_files \cup {"video_merged"}
                        ELSE temp_files
       /\ trace' = Finished(FileOutcome(produced))
       /\ IF produced
          THEN pc' = "ff_merged_probe" /\ UNCHANGED success
          ELSE pc' = "after_repair" /\ success' = "False"
  /\ UNCHANGED <<analysisVars, segments, seg_i, seg_files, current, output, mainVars>>

\* the duration probe of video_merged.mp4
_full_fix_merged_probe ==
  /\ pc = "ff_merged_probe"
  /\ waiting
  /\ waiting' = FALSE
  /\ running' = AfterRun(running)
  /\ trace' = Finished("ended")
  /\ pc' = "ff_mux"
  /\ UNCHANGED <<analysisVars, repairVars, mainVars>>

\* step 4/4: mux the merged video (encoded as yuv420p) with the audio
_full_fix_mux ==
  /\ pc = "ff_mux"
  /\ Waited
  /\ \E produced \in BOOLEAN :
       output' = IF produced THEN Written("yuv420p") ELSE output
  /\ trace' = Finished(FileOutcome(output'.exists))
  /\ success' = Returned(output'.exists)
  /\ pc' = "after_repair"
  /\ UNCHANGED <<analysisVars, segments, seg_i, seg_files, temp_files, current,
                 mainVars>>

\* ----------------------------------------------------------- _remove_freeze
_remove_freeze ==
  /\ pc = "remove_freeze"
  /\ segments' = _calc_segments(issues.freezes, info.duration)
  /\ seg_files' = <<>>
  /\ IF Len(segments') = 1
     THEN pc' = "rf_copy" /\ UNCHANGED <<seg_i, temp_files>>
     ELSE IF Len(segments') = 0
     THEN pc' = "rf_concat" /\ temp_files' = temp_files \cup {"list"}
                            /\ UNCHANGED seg_i
     ELSE pc' = "rf_seg" /\ seg_i' = 1 /\ UNCHANGED temp_files
  /\ UNCHANGED <<analysisVars, current, output, success, procVars, mainVars>>

\* the single-segment branch: stream copy of the whole input
_remove_freeze_copy ==
  /\ pc = "rf_copy"
  /\ Waited
  /\ \E produced \in BOOLEAN :
       output' = IF produced THEN Written(info.pix_fmt) ELSE output
  /\ trace' = Finished(FileOutcome(output'.exists))
  /\ success' = Returned(output'.exists)
  /\ pc' = "after_repair"
  /\ UNCHANGED <<analysisVars, segments, seg_i, seg_files, temp_files, current,
                 mainVars>>

\* one iteration of the loop over segments; list.txt is written after the last
_remove_freeze_segment ==
  /\ pc = "rf_seg"
  /\ Waited
  /\ \E produced \in BOOLEAN :
       /\ seg_files' = IF produced THEN Append(seg_files, seg_i) ELSE seg_files
       /\ trace' = Finished(FileOutcome(produced))
  /\ IF seg_i < Len(segments)
     THEN seg_i' = seg_i + 1 /\ pc' = "rf_seg" /\ UNCHANGED temp_files
     ELSE UNCHANGED seg_i /\ pc' = "rf_concat"
                          /\ temp_files' = temp_files \cup {"list"}
  /\ UNCHANGED <<analysisVars, segments, current, output, success, mainVars>>

\* _concat: the concat demuxer has nothing to read from an empty list
_concat ==
  /\ pc = "rf_concat"
  /\ Waited
  /\ \E produced \in IF seg_files = <<>> THEN {FALSE} ELSE BOOLEAN :
       output' = IF produced THEN Written(info.pix_fmt) ELSE output
  /\ trace' = Finished(FileOutcome(output'.exists))
  /\ success' = Returned(output'.exists)
  /\ pc' = "after_repair"
  /\ UNCHANGED <<analysisVars, segments, seg_i, seg_files, temp_files, current,
                 mainVars>>

\* -------------------------------------------------------------- _fix_compat
_fix_compat ==
  /\ pc = "fix_compat"
  /\ IF issues.moov_late \/ issues.timestamp_bad
     THEN pc' = "fc_container" /\ UNCHANGED current
     ELSE pc' = "fc_reencode" /\ current' = "input"
  /\ UNCHANGED <<analysisVars, segments, seg_i, seg_files, temp_files, output,
                 success, procVars, mainVars>>

\* step 1: "current = temp1 if temp1.exists() else self.input_path"
_fix_compat_container ==
  /\ pc = "fc_container"
  /\ Waited
  /\ \E produced \in BOOLEAN :
       /\ temp_files' = IF produced THEN temp_files \cup {"step1"} ELSE temp_files
       /\ trace' = Finished(FileOutcome(produced))
       /\ current' = IF produced THEN "step1" ELSE "input"
  /\ pc' = "fc_reencode"
  /\ UNCHANGED <<analysisVars, segments, seg_i, seg_files, output, success, mainVars>>

\* --------------------------------------------------------------- _light_fix
\* libx264 without -pix_fmt keeps the pixel format of its input
_light_fix ==
  /\ pc = "light"
  /\ Waited
  /\ \E produced \in BOOLEAN :
       output' = IF produced THEN Written(info.pix_fmt) ELSE output
  /\ trace' = Finished(FileOutcome(output'.exists))
  /\ success' = Returned(output'.exists)
  /\ pc' = "after_repair"
  /\ UNCHANGED <<analysisVars, segments, seg_i, seg_files, temp_files, current,
                 mainVars>>

\* ------------------------------------------------------------------- verify
\* the start of verify, up to the first probe
verify ==
  /\ pc = "verify"
  /\ phases' = Append(phases, "verify")
  /\ pc' = IF output.exists THEN "v_durations" ELSE Unwind("none")
  /\ UNCHANGED <<analysisVars, repairVars, procVars,
                 resp, answer, exc, temp_dir, cleanup_state, report, raised>>

\* the probe of the stream durations (try / except Exception)
verify_durations ==
  /\ pc = "v_durations"
  /\ waiting
  /\ waiting' = FALSE
  /\ running' = AfterRun(running)
  /\ trace' = Finished("ended")
  /\ pc' = "v_params"
  /\ UNCHANGED <<analysisVars, repairVars, mainVars>>

\* the probe "-show_entries stream=codec_name,profile,pix_fmt": of the entries
\* it returns for the video stream the model keeps pix_fmt; report stays empty
\* when the probe or json.loads fails
verify_params ==
  /\ pc = "v_params"
  /\ waiting
  /\ waiting' = FALSE
  /\ running' = AfterRun(running)
  /\ trace' = Finished("ended")
  /\ \/ report' = << [pix_fmt |-> output.pix_fmt] >>
     \/ UNCHANGED report
  /\ pc' = "v_integrity"
  /\ UNCHANGED <<analysisVars, repairVars,
                 resp, answer, exc, phases, temp_dir, cleanup_state, raised>>

\* the probe of the final duration; verify returns True and main's try ends
verify_integrity ==
  /\ pc = "v_integrity"
  /\ waiting
  /\ waiting' = FALSE
  /\ running' = AfterRun(running)
  /\ trace' = Finished("ended")
  /\ pc' = Unwind("none")
  /\ UNCHANGED <<analysisVars, repairVars, mainVars>>

\* ------------------------------------------------------------- interrupts
\* where control resumes after a bare "except:" has swallowed an exception
AfterBareExcept(stage) ==
  CASE stage = "check_moov" -> "check_ts"
    [] stage = "check_ts" -> "check_compat"
    [] stage = "ff_audio_probe" -> "ff_seg"
    [] stage = "ff_merged_probe" -> "ff_mux"
    [] stage = "v_params" -> "v_integrity"
    [] stage = "v_integrity" -> Unwind("none")

\* Ctrl-C inside a bare "except:" block, while the run is blocked in it:
\* subprocess.run kills its child and re-raises, the block swallows the
\* exception and the run goes on as after any other failure of the block
KeyboardInterrupt_swallowed ==
  /\ pc \in BareExceptStages
  /\ pc' = AfterBareExcept(pc)
  /\ IF pc \in SubprocessStages
     THEN /\ waiting
          /\ waiting' = FALSE
          /\ running' = AfterRun(running)
          /\ trace' = Finished("ended")
     ELSE UNCHANGED procVars
  /\ detect_failed' = IF pc = "check_ts" THEN detect_failed \cup {"timestamp"}
                      ELSE detect_failed
  /\ seg_i' = IF pc = "ff_audio_probe" THEN 1 ELSE seg_i
  /\ seg_files' = IF pc = "ff_audio_probe" THEN <<>> ELSE seg_files
  /\ UNCHANGED <<info, issues, strategy, stderr, segments, temp_files, current, output,
                 success, mainVars>>

\* positions inside the try block of repair
StrategyStages ==
  RunStages \cup {"full_fix", "remove_freeze", "fix_compat",
                  "ff_audio_probe", "ff_merged_probe"}

\* the call of main's try block that a position belongs to
RaisedIn(stage) ==
  IF stage \in StrategyStages THEN "repair"
  ELSE IF stage \in {"verify", "v_durations", "v_params", "v_integrity"} THEN "verify"
  ELSE IF stage \in {"prompt", "repair", "after_repair"} THEN "main"
  ELSE "analyze"

\* Ctrl-C anywhere else in the try block reaches "except KeyboardInterrupt" in
\* main; subprocess.run has killed its child, the child of _run is left alone
KeyboardInterrupt_main ==
  /\ pc \in TryStages \ BareExceptStages
  /\ exc' = "KeyboardInterrupt"
  /\ raised' = raised \cup {<<RaisedIn(pc), "KeyboardInterrupt">>}
  /\ pc' = Unwind("KeyboardInterrupt")
  /\ IF waiting /\ pc \in SubprocessStages
     THEN /\ waiting' = FALSE
          /\ running' = AfterRun(running)
          /\ trace' = Finished("ended")
     ELSE /\ waiting' = FALSE
          /\ UNCHANGED <<running, trace>>
  /\ UNCHANGED <<analysisVars, repairVars,
                 resp, answer, phases, temp_dir, cleanup_state, report>>

\* ------------------------------------------------------------------ cleanup
\* "except KeyboardInterrupt" and "except Exception as e" of main
MainCatches(e) == e \in {"KeyboardInterrupt", "Exception"}

\* finally: fixer.cleanup(); rmtree may raise, which cleanup swallows; an
\* exception no except clause of main caught goes on out of main
cleanup ==
  /\ pc = "finally"
  /\ IF temp_dir = "exists"
     THEN \/ temp_dir' = "removed" /\ cleanup_state' = "removed"
          \/ temp_dir' = temp_dir /\ cleanup_state' = "failed"
     ELSE temp_dir' = temp_dir /\ cleanup_state' = "nothing_to_remove"
  /\ pc' = IF exc = "none" \/ MainCatches(exc) THEN "done" ELSE "raised"
  /\ UNCHANGED <<analysisVars, repairVars, procVars, resp, answer, exc, phases,
                 report, raised>>

Next ==
  \/ analyze \/ subprocess_run \/ Popen
  \/ _get_info \/ _check_freezes \/ _check_container_moov \/ _check_container_ts
  \/ _check_compatibility \/ _decide
  \/ prompt \/ repair \/ repair_except \/ after_repair
  \/ _full_fix \/ _reencode_for_compatibility \/ _full_fix_audio
  \/ _full_fix_audio_probe \/ _full_fix_segment \/ _full_fix_concat
  \/ _full_fix_merged_probe \/ _full_fix_mux
  \/ _remove_freeze \/ _remove_freeze_copy \/ _remove_freeze_segment \/ _concat
  \/ _fix_compat \/ _fix_compat_container \/ _light_fix
  \/ verify \/ verify_durations \/ verify_params \/ verify_integrity
  \/ KeyboardInterrupt_swallowed \/ KeyboardInterrupt_main
  \/ cleanup

Spec == Init /\ [][Next]_vars

\* ------------------------------------ properties of the segment calculator
SegStarts(segs) == { segs[i].start : i \in 1..Len(segs) }
SegEnds(segs) == { segs[i].end : i \in 1..Len(segs) }
FreezeStarts(frz) == { frz[i][1] : i \in 1..Len(frz) }
FreezeEnds(frz) == { frz[i][2] : i \in 1..Len(frz) }

\* the closed intervals that account for the video: keep-segments and freezes
Accounted(segs, frz) ==
  { <<segs[i].start, segs[i].end>> : i \in 1..Len(segs) } \cup
  { <<frz[i][1], frz[i][2]>> : i \in 1..Len(frz) }

\* x is the left edge of a gap: no accounted interval continues past x
GapStartsAt(x, segs, frz) ==
  ~ \E iv \in Accounted(segs, frz) : iv[1] <= x /\ x < iv[2]

\* every gap of [0,dur] left by the accounted intervals is at most Tol long:
\* at 0 and at every interval end before dur, either an interval continues or
\* the next interval (or the end of the video) begins within Tol
CoveredWithinTol(segs, frz, dur) ==
  \A x \in {0} \cup SegEnds(segs) \cup FreezeEnds(frz) :
    (x < dur /\ GapStartsAt(x, segs, frz)) =>
      \E y \in SegStarts(segs) \cup FreezeStarts(frz) \cup {dur} :
        x < y /\ y <= x + Tol

OrderedByStart(segs) ==
  \A i \in 1..Len(segs), j \in 1..Len(segs) :
    i < j => segs[i].start <= segs[j].start

NonOverlapping(segs) ==
  \A i \in 1..Len(segs), j \in 1..Len(segs) :
    i < j => segs[i].end <= segs[j].start

\* C1: for freeze intervals within [0,D] the returned segments are ordered by
\* start, pairwise non-overlapping, and together with the freeze intervals
\* they cover [0,D] up to gaps of at most 0.5 s (the tolerance).
C1_SegmentsOrderedDisjointCovering ==
  pc = "calc_out" =>
    /\ OrderedByStart(segments)
    /\ NonOverlapping(segments)
    /\ CoveredWithinTol(segments, issues.freezes, info.duration)

\* two freezes, a kept segment, and a gap that the tolerance test dropped
C1_Witness ==
  /\ pc = "calc_out"
  /\ Len(issues.freezes) = 2
  /\ Len(segments) >= 1
  /\ \E x \in {0} \cup FreezeEnds(issues.freezes) :
       x < info.duration /\ GapStartsAt(x, segments, issues.freezes)

\* C2: an empty freeze list yields exactly one segment, from 0 to D, for
\* every duration D, the default duration included.
C2_EmptyFreezesWholeVideo ==
  (pc = "calc_out" /\ issues.freezes = <<>>) =>
    /\ Len(segments) = 1
    /\ segments[1].start = 0
    /\ segments[1].end = info.duration

\* no freezes and a duration too short to pass the final tolerance test
C2_Witness ==
  /\ pc = "calc_out"
  /\ issues.freezes = <<>>
  /\ info.duration <= Tol
  /\ Len(segments) = 1

Permuted(frz, p) == [i \in 1..Len(frz) |-> frz[p[i]]]

\* a time strictly inside the freeze <<s, e, _>> lies in the segment [start,end)
SegmentEntersFreeze(seg, f) == seg.start < f[2] /\ f[1] < seg.end

\* C3: the result is the same for every permutation of the freeze list, and
\* no returned segment contains a time strictly inside a freeze interval
\* (overlapping intervals act as their union).
C3_PermutationInvariantAndFreezeFree ==
  pc = "calc_out" =>
    /\ \A p \in Permutations(1..Len(issues.freezes)) :
         _calc_segments(Permuted(issues.freezes, p), info.duration) = segments
    /\ \A i \in 1..Len(segments), j \in 1..Len(issues.freezes) :
         ~ SegmentEntersFreeze(segments[i], issues.freezes[j])

\* out-of-order, overlapping freezes with a kept segment before them
C3_Witness ==
  /\ pc = "calc_out"
  /\ Len(issues.freezes) = 2
  /\ TupleLess(issues.freezes[2], issues.freezes[1])
  /\ issues.freezes[1][1] < issues.freezes[2][2]
  /\ Len(segments) >= 1
  /\ segments[1].end = issues.freezes[2][1]

\* ------------------------------------------------- properties of the run
PhaseStarted(ph) == \E i \in 1..Len(phases) : phases[i] = ph

HasFreezes == Len(issues.freezes) > 0
HasContainerIssue == issues.moov_late \/ issues.timestamp_bad
NeedReencode == issues.need_reencode

\* C4: the strategy is a total function of has_freezes, has_container_issue
\* and need_reencode alone: once analysis has passed _decide exactly one of
\* the four strategies is set, and it is the one the decision table names.
C4_DecisionTable ==
  /\ PhaseStarted("prompt") => strategy # "unset"
  /\ strategy # "unset" =>
       /\ strategy \in {"full_fix", "remove_freeze", "fix_compatibility", "light"}
       /\ strategy = "full_fix" <=>
            (HasFreezes /\ (HasContainerIssue \/ NeedReencode))
       /\ strategy = "remove_freeze" <=>
            (HasFreezes /\ ~HasContainerIssue /\ ~NeedReencode)
       /\ strategy = "fix_compatibility" <=>
            (~HasFreezes /\ (HasContainerIssue \/ NeedReencode))
       /\ strategy = "light" <=>
            (~HasFreezes /\ ~HasContainerIssue /\ ~NeedReencode)

\* freezes and a needed re-encode, with a sound container
C4_Witness ==
  /\ strategy = "full_fix"
  /\ HasFreezes
  /\ ~HasContainerIssue
  /\ NeedReencode

\* C5: a failed detection pass (probe, freeze detection, timestamp scan) does
\* not abort the run: the defaults are used, a strategy is selected and the
\* confirmation prompt is reached (a run the user interrupts aside).
C5_DetectionFailureNeverAborts ==
  /\ "probe" \in detect_failed => info = DefaultInfo
  /\ (detect_failed # {} /\ pc \in {"finally", "done"} /\ exc # "KeyboardInterrupt") =>
       /\ strategy # "unset"
       /\ PhaseStarted("prompt")

\* C6: the run ends only after cleanup has run: the scratch directory is
\* removed, or its removal was attempted and the error swallowed.
C6_CleanupBeforeEnd ==
  pc = "done" =>
    /\ cleanup_state # "not_run"
    /\ temp_dir = "removed" \/ cleanup_state = "failed"

\* a run ended by Ctrl-C during a repair command, with the directory removed
C6_Witness ==
  /\ pc = "done"
  /\ exc = "KeyboardInterrupt"
  /\ PhaseStarted("repair")
  /\ running = 1
  /\ temp_dir = "removed"

\* an invocation whose expected file was missing ended its strategy
EndsStrategy(i) == i = Len(trace) /\ success = "False"

\* C7 as stated: after any external invocation of a repair strategy whose
\* expected file is missing, the strategy returns False and starts nothing.
C7_AnyMissingFileShortCircuits ==
  \A i \in 1..Len(trace) : trace[i].out = "missing" => EndsStrategy(i)

\* stages whose expected file the code tests with "return False" / "return exists()"
CheckedStages ==
  {"ff_audio", "ff_concat", "ff_mux", "ff_reencode", "fc_reencode",
   "rf_copy", "rf_concat", "light"}

\* C7 as amended: a missing audio file, merged video or final output ends the
\* strategy with False and nothing is started after it; _full_fix starts its
\* concatenation only if some segment file exists.
C7_CheckedStagesShortCircuit ==
  /\ \A i \in 1..Len(trace) :
       (trace[i].stage \in CheckedStages /\ trace[i].out = "missing")
         => EndsStrategy(i)
  /\ (\E i \in 1..Len(trace) : trace[i].stage = "ff_concat") =>
       (\E j \in 1..Len(trace) : trace[j].stage = "ff_seg" /\ trace[j].out = "exists")

\* the audio extraction produced no file and _full_fix returned False
C7_Witness ==
  /\ Len(trace) > 0
  /\ trace[Len(trace)].stage = "ff_audio"
  /\ trace[Len(trace)].out = "missing"
  /\ success = "False"
  /\ pc = "after_repair"

\* C8: at most one external process is in flight, and every invocation but
\* the latest has ended before the next one was started.
C8_OneProcessAtATime ==
  /\ running <= 1
  /\ \A i \in 1..Len(trace) : trace[i].out = "running" => i = Len(trace)

\* the second segment extraction of _full_fix is in flight
C8_Witness ==
  /\ pc = "ff_seg"
  /\ seg_i = 2
  /\ waiting
  /\ running = 1

PhaseOrder == <<"analyze", "prompt", "repair", "verify">>

\* typed lines that are empty, "y" or "yes" once case and surrounding
\* whitespace are ignored
AcceptedAnswers == { <<>>, <<" ">>, <<"Y">>, <<" ", "Y", "e", "s", " ">> }

\* C9: the phases start in the order analyze, prompt, repair, verify; repair
\* starts only after analysis has chosen a strategy and the user has typed an
\* accepted answer; any other answer ends the run with no repair command
\* started and no output written; verify starts only after repair returned True.
C9_PhaseOrder ==
  /\ Len(phases) <= Len(PhaseOrder)
  /\ \A i \in 1..Len(phases) : phases[i] = PhaseOrder[i]
  /\ PhaseStarted("repair") => (strategy # "unset" /\ answer \in AcceptedAnswers)
  /\ answer \notin AcceptedAnswers =>
       /\ pc \in {"finally", "done"}
       /\ ~PhaseStarted("repair")
       /\ \A i \in 1..Len(trace) : trace[i].stage \notin RunStages
       /\ ~output.written
  /\ PhaseStarted("verify") => success = "True"

\* verify has started after the answer " Yes "
C9_Witness ==
  /\ PhaseStarted("verify")
  /\ answer = <<" ", "Y", "e", "s", " ">>
  /\ success = "True"

\* a 900 s input, probed successfully, on which analysis found no issue
CleanInput ==
  /\ strategy # "unset"
  /\ info.duration = DefaultDuration
  /\ issues = NoIssues

ShortcutTaken ==
  \/ pc \in {"ff_reencode", "rf_copy"}
  \/ \E i \in 1..Len(trace) : trace[i].stage \in {"ff_reencode", "rf_copy"}

\* C12: a freeze-removing strategy processes the whole input without cutting
\* only if _calc_segments returned the single segment [0,D]; when a freeze
\* interval exists the frozen range is cut, so the shortcut is not taken.
C12_ShortcutOnlyForWholeVideo ==
  /\ ShortcutTaken =>
       /\ Len(segments) = 1
       /\ segments[1].start = 0
       /\ segments[1].end = info.duration
  /\ (ShortcutTaken /\ output.written) => ~HasFreezes

\* ------------------------------------------- properties of the line parser
\* line i carries a freeze_start with a number
IsStart(i) == stderr[i].kind = "freeze_start" /\ stderr[i].t # <<>>

\* line j carries a freeze_end with a number
IsEnd(j) == stderr[j].kind = "freeze_end" /\ stderr[j].t # <<>>

\* i is the most recent freeze_start before line j, and it is still open there
OpenStartOf(i, j) ==
  /\ i < j
  /\ IsStart(i)
  /\ \A k \in (i + 1)..(j - 1) : ~IsStart(k) /\ ~IsEnd(k)

\* the freeze_end lines that close a freeze of at least the minimum length
ClosingLines ==
  { j \in 1..Len(stderr) :
      /\ IsEnd(j)
      /\ \E i \in 1..Len(stderr) :
           OpenStartOf(i, j) /\ stderr[j].t[1] - stderr[i].t[1] >= MinFreeze }

StartOf(j) == CHOOSE i \in 1..Len(stderr) : OpenStartOf(i, j)

\* C13: the freeze list holds, in the order of their freeze_end lines,
\* exactly the triples (start, end, end - start) of the freeze_end lines that
\* close the most recent open freeze_start with end - start >= 3.0; unmatched
\* freeze_end and freeze_start lines add nothing.
C13_FreezeListFromLines ==
  pc = "parse_out" =>
    LET frz == issues.freezes
    IN /\ Len(frz) = Cardinality(ClosingLines)
       /\ \A n \in 1..Len(frz) : frz[n][3] = frz[n][2] - frz[n][1] /\ frz[n][3] >= MinFreeze
       /\ \E at \in [1..Len(frz) -> ClosingLines] :
            /\ \A m \in 1..Len(frz), n \in 1..Len(frz) : m < n => at[m] < at[n]
            /\ \A n \in 1..Len(frz) :
                 /\ frz[n][1] = stderr[StartOf(at[n])].t[1]
                 /\ frz[n][2] = stderr[at[n]].t[1]

\* two freezes detected, the first freeze_start of the output replaced by a
\* later one before its freeze_end
C13_Witness ==
  /\ pc = "parse_out"
  /\ Len(stderr) = MaxParseLines
  /\ IsStart(1)
  /\ IsStart(2)
  /\ stderr[1].t # stderr[2].t
  /\ Len(issues.freezes) >= 1
  /\ issues.freezes[1][1] = stderr[2].t[1]

\* ------------------------------------------- properties of the cursor walk
\* the cursor of _calc_segments after the first k sorted intervals
CursorAfter(k) ==
  WalkFreezes(SubSeq(sorted(issues.freezes), 1, k), 0, <<>>)[1]

SegmentLength(seg) == seg.end - seg.start

\* C14: when the freeze list is not empty, every keep-segment returned by
\* _calc_segments is longer than the tolerance of 0.5 s (so none has zero or
\* negative length), and the cursor never moves backwards while the sorted
\* intervals are walked.
C14_SegmentsLongerThanTolerance ==
  issues.freezes # <<>> =>
    /\ \A i \in 1..Len(segments) :
         /\ SegmentLength(segments[i]) > Tol
         /\ SegmentLength(segments[i]) > 0
    /\ \A k \in 1..Len(issues.freezes) : CursorAfter(k - 1) <= CursorAfter(k)

\* two freezes, the second of the sorted walk ending before the cursor, and a
\* keep-segment one tick longer than the tolerance
C14_Witness ==
  /\ pc = "calc_out"
  /\ Len(issues.freezes) = 2
  /\ \E k \in 1..Len(issues.freezes) :
       sorted(issues.freezes)[k][2] < CursorAfter(k - 1)
  /\ \E i \in 1..Len(segments) : SegmentLength(segments[i]) = Tol + 1

====
